---- MODULE Spec2Model ----
(***************************************************************************)
(* Model of redish/types.py: the List adapter and the FIFO/LIFO Queue      *)
(* built on it, over one key of the remote store.  The store executes one  *)
(* command at a time; every action below is one store command together     *)
(* with the adapter code that surrounds it.                                *)
(***************************************************************************)
EXTENDS Integers, Sequences, FiniteSets, TLC

\* ---------------------------------------------------------------- bounds
MaxLen == 3        \* longest stored list that is explored
MaxIdx == 4        \* indices passed to get/set/slice range over 0..MaxIdx
MaxCount == 3      \* remove(value, count) is called with count in 0..MaxCount
MaxSize == 2       \* queues are constructed with maxsize in 0..MaxSize
MaxTimeout == 2    \* get(timeout=t) is called with t in 1..MaxTimeout ticks
MaxPuts == 2       \* puts completed in one run of the queue
MaxScore == 2      \* scores of the sorted sets range over 0..MaxScore
MaxOps == 4        \* in-place updates of the counter in one run

\* ------------------------------------------------------- value universe
Values == {"", "a", "b"}       \* stored strings; "" is the falsy one
Items == {"", "a"}             \* what callers put on the queue
KeyName == "q"                 \* self.name, the key of the list
Callers == {1, 2}              \* clients using the same key
NoTimeout == 0                 \* timeout=None: the client library sends 0
Elems == {"x", "y", "z"}       \* members of the Sets
Fields == {"k1", "k2"}         \* keys of the Dict
Missing == "<missing>"         \* no such field in the hash
DictValues == {"", "v"}        \* values stored in the Dict
Defaults == {"d"}              \* defaults passed to get and pop
HookValue == "hv"              \* what the class's __missing__ returns
Members == {"a", "b", "c"}     \* members of the sorted sets
NoScore == -1                  \* no such member in the sorted set
Amounts == {1, 2}              \* amounts passed to increment
\* lexicographic order of the member names
Ord == [m \in Members |-> IF m = "a" THEN 1 ELSE IF m = "b" THEN 2 ELSE 3]

\* Python-level results of a call, and replies of the store.
RNone == [t |-> "none"]
RVal(x) == [t |-> "val", v |-> x]
RList(s) == [t |-> "list", v |-> s]
RInt(n) == [t |-> "int", v |-> n]
RPair(k, x) == [t |-> "pair", k |-> k, v |-> x]
RBool(b) == [t |-> "bool", v |-> b]
Raise(e) == [t |-> "raise", e |-> e]
RaiseMsg(e, m) == [t |-> "raise", e |-> e, msg |-> m]

\* bool(item) for a store reply: None and the empty string are falsy.
Truthy(r) == r.t # "none" /\ ~(r.t = "val" /\ r.v = "") /\ ~(r.t = "int" /\ r.v = 0)

VARIABLES
  lst,      \* the list stored under KeyName, head first
  kind,     \* "fifo" (Queue) or "lifo" (LifoQueue)
  maxsize,  \* Queue.maxsize
  initial,  \* the initial contents the Queue was constructed with
  pc,       \* pc[c]: "idle", "put" (full() passed, push pending), "blocked"
  call,     \* call[c]: locals of caller c's call in progress
  waitq,    \* callers blocked in the store's blocking pop, oldest first
  putlog,   \* items put so far, in the order of their pushes
  gotlog,   \* values returned by get / get_nowait so far, in order
  mixed,    \* TRUE once a put started after some get had returned
  last,     \* the call that completed last: what was asked, what came back
  prev,     \* the mapping call that completed before it
  setA,     \* members of the remote set under key "A"
  setB,     \* members of the remote set under key "B"
  hash,     \* the remote hash of the Dict: field -> value, or Missing
  hook,     \* TRUE when the Dict class defines __missing__
  zdict,    \* ZSet._dict: member -> score, or NoScore
  zstore,   \* the remote sorted set of the SortedSet: member -> score, or NoScore
  counter,  \* the integer stored under the Int's key
  counter0, \* its value when the callers started
  deltas,   \* the signed amounts of the += and -= called so far, in call order
  heap,     \* the mapping objects ZSet instances refer to: object -> (member -> score)
  ref       \* ref[i]: the object that is ZSet instance i's _dict, and what it
            \* held when the instance was constructed

SetVars == <<setA, setB>>
InstVars == <<heap, ref>>
DictVars == <<hash, hook>>
ZVars == <<zdict, zstore>>
IntVars == <<counter, counter0, deltas>>
OtherVars == <<prev, SetVars, InstVars, DictVars, ZVars, IntVars>>

vars == <<lst, kind, maxsize, initial, pc, call, waitq, putlog, gotlog, mixed, last,
          OtherVars>>

\* ------------------------------------------------- store list commands
\* The adapters receive the store client from outside; the commands they
\* call behave as the store documents them: indices are zero-based and may
\* be negative (counted from the tail), ranges include both ends, LSET on a
\* missing key (an empty list) is refused with "no such key", and a
\* blocking pop answers with the pair (key, element).
\* Zero-based position p of list L is L[p + 1].
Norm(L, i) == IF i < 0 THEN Len(L) + i ELSE i

\* LINDEX key index
LIndex(L, i) ==
  LET p == Norm(L, i)
  IN IF p >= 0 /\ p < Len(L) THEN RVal(L[p + 1]) ELSE RNone

\* LRANGE key start end (both ends inclusive, negative counts from tail)
LRange(L, s, e) ==
  LET s1 == IF Norm(L, s) < 0 THEN 0 ELSE Norm(L, s)
      e1 == Norm(L, e)
      e2 == IF e1 >= Len(L) THEN Len(L) - 1 ELSE e1
  IN IF s1 > e1 \/ s1 >= Len(L) THEN <<>> ELSE SubSeq(L, s1 + 1, e2 + 1)

\* LTRIM key start end: the list becomes what LRANGE would return
LTrim(L, s, e) == LRange(L, s, e)

\* LSET key index value: error text, or "" on success
LSetError(L, i) ==
  IF L = <<>> THEN "no such key"
  ELSE IF Norm(L, i) < 0 \/ Norm(L, i) >= Len(L) THEN "index out of range"
  ELSE ""

LSet(L, i, v) == [L EXCEPT ![Norm(L, i) + 1] = v]

RECURSIVE RemFirst(_, _, _)
\* the list after deleting the first n elements equal to v, head to tail
RemFirst(L, v, n) ==
  IF L = <<>> THEN <<>>
  ELSE IF Head(L) = v /\ n > 0 THEN RemFirst(Tail(L), v, n - 1)
  ELSE <<Head(L)>> \o RemFirst(Tail(L), v, n)

Occurrences(L, v) == Cardinality({p \in 1..Len(L) : L[p] = v})

\* LREM key count value, count >= 0 (0 removes every occurrence)
LRem(L, v, n) == RemFirst(L, v, IF n = 0 THEN Len(L) ELSE n)
LRemReply(L, v, n) ==
  LET c == Occurrences(L, v) IN IF n = 0 \/ c < n THEN c ELSE n

LPush(L, v) == <<v>> \o L
RPush(L, v) == L \o <<v>>
LPopReply(L) == IF L = <<>> THEN RNone ELSE RVal(Head(L))
LPop(L) == IF L = <<>> THEN L ELSE Tail(L)
RPopReply(L) == IF L = <<>> THEN RNone ELSE RVal(L[Len(L)])
RPop(L) == IF L = <<>> THEN L ELSE SubSeq(L, 1, Len(L) - 1)

\* ----------------------------------------------------- bookkeeping
NoCall == [v |-> "", t |-> 0, waited |-> 0, seen |-> 0]

Done(op, c, i, j, v, pre, out, cmds) ==
  [op |-> op, c |-> c, i |-> i, j |-> j, v |-> v, pre |-> pre,
   out |-> out, cmds |-> cmds]

\* A blocked client is served before the store takes the next command.
ServePending == waitq # <<>> /\ lst # <<>>

Idle(c) == pc[c] = "idle" /\ ~ServePending

QueueVars == <<kind, maxsize, initial, pc, call, waitq, putlog, gotlog, mixed>>

\* ------------------------------------------------------ List adapter
\* a __getitem__ that would test "is not None"
GetItemOut_NotNone(L, i) ==
  IF LIndex(L, i).t # "none" THEN LIndex(L, i) ELSE Raise("IndexError")

\* List.__getitem__
GetItemOut(L, i) ==
  LET item == LIndex(L, i)
  IN IF Truthy(item) THEN item ELSE Raise("IndexError")

GetItem(c, i) ==
  /\ Idle(c)
  /\ last' = Done("getitem", c, i, 0, "", lst, GetItemOut(lst, i), <<"lindex">>)
  /\ UNCHANGED <<lst, QueueVars, OtherVars>>

\* a __setitem__ that would turn every store error into IndexError
SetItemTranslate_Always(args) == Raise("IndexError")

\* List.__setitem__: the except clause, given the ResponseError's args
SetItemTranslate(args) ==
  IF \E k \in 1..Len(args) : args[k] = "index out of range"
  THEN Raise("IndexError")
  ELSE RaiseMsg("ResponseError", args[1])

SetItemOut(L, i) ==
  IF LSetError(L, i) = "" THEN RNone ELSE SetItemTranslate(<<LSetError(L, i)>>)

SetItem(c, i, v) ==
  /\ Idle(c)
  /\ lst' = IF LSetError(lst, i) = "" THEN LSet(lst, i, v) ELSE lst
  /\ last' = Done("setitem", c, i, 0, v, lst, SetItemOut(lst, i), <<"lset">>)
  /\ UNCHANGED <<QueueVars, OtherVars>>

\* List.__getslice__
GetSliceOut(L, i, j) == RList(LRange(L, i, j - 1))

GetSlice(c, i, j) ==
  /\ Idle(c)
  /\ last' = Done("getslice", c, i, j, "", lst, GetSliceOut(lst, i, j), <<"lrange">>)
  /\ UNCHANGED <<lst, QueueVars, OtherVars>>

\* a remove that would report the count it was asked for
RemoveOut_Requested(L, v, n) ==
  IF LRemReply(L, v, n) = 0 THEN Raise("ValueError") ELSE RInt(n)

\* List.remove
RemoveOut(L, v, n) ==
  LET count == LRemReply(L, v, n)
  IN IF ~Truthy(RInt(count)) THEN Raise("ValueError") ELSE RInt(count)

Remove(c, v, n) ==
  /\ Idle(c)
  /\ lst' = LRem(lst, v, n)
  /\ last' = Done("remove", c, n, 0, v, lst, RemoveOut(lst, v, n), <<"lrem">>)
  /\ UNCHANGED <<QueueVars, OtherVars>>

\* List.trim
TrimTo(L, start, stop) == LTrim(L, start, stop - 1)

Trim(c, start, stop) ==
  /\ Idle(c)
  /\ lst' = TrimTo(lst, start, stop)
  /\ last' = Done("trim", c, start, stop, "", lst, RBool(TRUE), <<"ltrim">>)
  /\ UNCHANGED <<QueueVars, OtherVars>>

\* List.append
ListAppend(c, v) ==
  /\ Idle(c)
  /\ Len(lst) < MaxLen
  /\ lst' = RPush(lst, v)
  /\ last' = Done("append", c, 0, 0, v, lst, RInt(Len(lst) + 1), <<"rpush">>)
  /\ UNCHANGED <<QueueVars, OtherVars>>

\* List.appendleft
AppendLeft(c, v) ==
  /\ Idle(c)
  /\ Len(lst) < MaxLen
  /\ lst' = LPush(lst, v)
  /\ last' = Done("appendleft", c, 0, 0, v, lst, RInt(Len(lst) + 1), <<"lpush">>)
  /\ UNCHANGED <<QueueVars, OtherVars>>

\* List.pop
Pop(c) ==
  /\ Idle(c)
  /\ lst' = RPop(lst)
  /\ last' = Done("pop", c, 0, 0, "", lst, RPopReply(lst), <<"rpop">>)
  /\ UNCHANGED <<QueueVars, OtherVars>>

\* List.popleft
PopLeft(c) ==
  /\ Idle(c)
  /\ lst' = LPop(lst)
  /\ last' = Done("popleft", c, 0, 0, "", lst, LPopReply(lst), <<"lpop">>)
  /\ UNCHANGED <<QueueVars, OtherVars>>

\* an extend that would push every value at the head
ExtendOne_Head(L, v, left) == LPush(L, v)

\* one turn of the loop of List.extend (self.append(value)) or of
\* List.extendleft (self.appendleft(value))
ExtendOne(L, v, left) == IF left THEN LPush(L, v) ELSE RPush(L, v)

RECURSIVE ListExtend(_, _)
\* List.extend run to its end with nobody else on the key
ListExtend(L, xs) ==
  IF xs = <<>> THEN L ELSE ListExtend(ExtendOne(L, Head(xs), FALSE), Tail(xs))

\* List.extend / List.extendleft is called: the loop is about to start
ExtendCall(c, xs, left) ==
  /\ Idle(c)
  /\ call[c] = NoCall
  /\ call' = [call EXCEPT ![c] = [xs |-> xs, n |-> 0, left |-> left, L0 |-> lst]]
  /\ pc' = [pc EXCEPT ![c] = IF xs = <<>> THEN "idle" ELSE "extend"]
  /\ UNCHANGED <<OtherVars, lst, kind, maxsize, initial, waitq, putlog, gotlog, mixed, last>>

\* the loop pushes its next value: one RPUSH or LPUSH
ExtendPush(c) ==
  /\ pc[c] = "extend"
  /\ ~ServePending
  /\ lst' = ExtendOne(lst, call[c].xs[call[c].n + 1], call[c].left)
  /\ call' = [call EXCEPT ![c].n = @ + 1]
  /\ pc' = [pc EXCEPT ![c] =
              IF call[c].n + 1 = Len(call[c].xs) THEN "idle" ELSE "extend"]
  /\ last' = Done(IF call[c].left THEN "appendleft" ELSE "append", c, 0, 0,
                  call[c].xs[call[c].n + 1], lst, RInt(Len(lst) + 1),
                  <<IF call[c].left THEN "lpush" ELSE "rpush">>)
  /\ UNCHANGED <<OtherVars, kind, maxsize, initial, waitq, putlog, gotlog, mixed>>

\* ----------------------------------------------------- Queue adapter
\* Queue.__init__ / LifoQueue.__init__: self._pop is list.pop (RPOP) for
\* a Queue and list.popleft (LPOP) for a LifoQueue; self._bpop is the
\* client's brpop, respectively blpop; self._append is list.appendleft.
PopCmd(k) == IF k = "fifo" THEN "rpop" ELSE "lpop"
BPopCmd(k) == IF k = "fifo" THEN "brpop" ELSE "blpop"
PopReply(k, L) == IF k = "fifo" THEN RPopReply(L) ELSE LPopReply(L)
PopRest(k, L) == IF k = "fifo" THEN RPop(L) ELSE LPop(L)

\* BRPOP / BLPOP reply: nothing on expiry, else the pair (key, element)
BPopReply(k, L) ==
  IF PopReply(k, L).t = "none" THEN RNone ELSE RPair(KeyName, PopReply(k, L).v)

\* full() that still admits one put when the length has reached maxsize
FullValue_Strict(m, n) == IF m # 0 THEN n > m ELSE FALSE

\* Queue.full: self.maxsize and len(self.list) >= self.maxsize or False
FullValue(m, n) == IF m # 0 THEN n >= m ELSE FALSE
FullCmds(m) == IF m # 0 THEN <<"llen">> ELSE <<>>

full(c) ==
  /\ Idle(c)
  /\ last' = Done("full", c, 0, Len(lst), "", lst,
                  RBool(FullValue(maxsize, Len(lst))), FullCmds(maxsize))
  /\ UNCHANGED <<lst, QueueVars, OtherVars>>

\* Queue.put up to and including its full() check
PutCheck(c, x) ==
  /\ Idle(c)
  /\ Len(putlog) + Cardinality({d \in Callers : pc[d] = "put"}) < MaxPuts
  /\ IF FullValue(maxsize, Len(lst))
     THEN /\ last' = Done("put", c, 0, Len(lst), x, lst, Raise("Full"),
                          FullCmds(maxsize))
          /\ UNCHANGED <<pc, call>>
     ELSE /\ pc' = [pc EXCEPT ![c] = "put"]
          /\ call' = [call EXCEPT ![c] = [NoCall EXCEPT !.v = x, !.seen = Len(lst)]]
          /\ UNCHANGED last
  /\ UNCHANGED <<OtherVars, lst, kind, maxsize, initial, waitq, putlog, gotlog, mixed>>

\* a queue that would push at the tail
QueueAppend_Tail(L, x) == RPush(L, x)

\* self._append = self.list.appendleft
QueueAppend(L, x) == LPush(L, x)

\* Queue.put, the push: self._append(item)
PutPush(c) ==
  /\ pc[c] = "put"
  /\ ~ServePending
  /\ lst' = QueueAppend(lst, call[c].v)
  /\ putlog' = Append(putlog, call[c].v)
  /\ mixed' = (mixed \/ gotlog # <<>>)
  /\ pc' = [pc EXCEPT ![c] = "idle"]
  /\ call' = [call EXCEPT ![c] = NoCall]
  /\ last' = Done("put", c, 0, call[c].seen, call[c].v, lst, RNone,
                  FullCmds(maxsize) \o <<"lpush">>)
  /\ UNCHANGED <<OtherVars, kind, maxsize, initial, waitq, gotlog>>

\* a get that would test the item's truth instead of "is not None"
GetOut_Truthy(item) == IF Truthy(item) THEN item ELSE Raise("Empty")

\* the tail of Queue.get and Queue.get_nowait: the item unless it is None
GetOut(item) == IF item.t # "none" THEN item ELSE Raise("Empty")

Returned(log, out) == IF out.t = "raise" THEN log ELSE Append(log, out)

\* Queue.get_nowait
get_nowait(c) ==
  /\ Idle(c)
  /\ lst' = PopRest(kind, lst)
  /\ gotlog' = Returned(gotlog, GetOut(PopReply(kind, lst)))
  /\ last' = Done("get_nowait", c, 0, 0, "", lst, GetOut(PopReply(kind, lst)),
                  <<PopCmd(kind)>>)
  /\ UNCHANGED <<OtherVars, kind, maxsize, initial, pc, call, waitq, putlog, mixed>>

\* Queue.get(block=False, timeout=t): return self.get_nowait()
GetNoBlock(c, t) ==
  /\ Idle(c)
  /\ lst' = PopRest(kind, lst)
  /\ gotlog' = Returned(gotlog, GetOut(PopReply(kind, lst)))
  /\ last' = Done("get_noblock", c, t, 0, "", lst, GetOut(PopReply(kind, lst)),
                  <<PopCmd(kind)>>)
  /\ UNCHANGED <<OtherVars, kind, maxsize, initial, pc, call, waitq, putlog, mixed>>

\* Queue.get(block=True, timeout=t): the blocking pop is issued; it is
\* answered at once when the list has an element, else the caller waits.
GetBlock(c, t) ==
  /\ Idle(c)
  /\ IF lst # <<>>
     THEN /\ lst' = PopRest(kind, lst)
          /\ gotlog' = Returned(gotlog, GetOut(BPopReply(kind, lst)))
          /\ last' = Done("get", c, t, 0, "", lst, GetOut(BPopReply(kind, lst)),
                          <<BPopCmd(kind)>>)
          /\ UNCHANGED <<pc, call, waitq>>
     ELSE /\ pc' = [pc EXCEPT ![c] = "blocked"]
          /\ call' = [call EXCEPT ![c] = [NoCall EXCEPT !.t = t]]
          /\ waitq' = Append(waitq, c)
          /\ UNCHANGED <<lst, gotlog, last>>
  /\ UNCHANGED <<OtherVars, kind, maxsize, initial, putlog, mixed>>

\* The store hands a pushed element to the client that waited longest.
Serve ==
  /\ ServePending
  /\ LET w == Head(waitq)
     IN /\ lst' = PopRest(kind, lst)
        /\ waitq' = Tail(waitq)
        /\ pc' = [pc EXCEPT ![w] = "idle"]
        /\ call' = [call EXCEPT ![w] = NoCall]
        /\ gotlog' = Returned(gotlog, GetOut(BPopReply(kind, lst)))
        /\ last' = Done("get", w, call[w].t, call[w].waited, "", lst,
                        GetOut(BPopReply(kind, lst)), <<BPopCmd(kind)>>)
  /\ UNCHANGED <<OtherVars, kind, maxsize, initial, putlog, mixed>>

Timed(c) == pc[c] = "blocked" /\ call[c].t # NoTimeout

\* One unit of time passes for every caller waiting with a timeout.
Tick ==
  /\ ~ServePending
  /\ \E c \in Callers : Timed(c)
  /\ \A c \in Callers : Timed(c) => call[c].waited < call[c].t
  /\ call' = [c \in Callers |->
                IF Timed(c) THEN [call[c] EXCEPT !.waited = @ + 1] ELSE call[c]]
  /\ UNCHANGED <<OtherVars, lst, kind, maxsize, initial, pc, waitq, putlog, gotlog, mixed, last>>

\* The blocking pop of caller c expires: the store answers with nothing.
Timeout(c) ==
  /\ Timed(c)
  /\ ~ServePending
  /\ call[c].waited = call[c].t
  /\ waitq' = SelectSeq(waitq, LAMBDA d : d # c)
  /\ pc' = [pc EXCEPT ![c] = "idle"]
  /\ call' = [call EXCEPT ![c] = NoCall]
  /\ last' = Done("get", c, call[c].t, call[c].waited, "", lst,
                  GetOut(BPopReply(kind, <<>>)), <<BPopCmd(kind)>>)
  /\ UNCHANGED <<OtherVars, lst, kind, maxsize, initial, putlog, gotlog, mixed>>

\* ------------------------------------------------------- Set adapter
ListQueueVars == <<lst, QueueVars>>

RSet(S) == [t |-> "set", v |-> S]

\* operands of union / intersection / difference: another Set adapter
\* (isinstance(other, self.__class__)) or a plain local set
Remote(n) == [remote |-> TRUE, name |-> n]
Local(S) == [remote |-> FALSE, set |-> S]
Operands == {Remote("B")} \cup {Local(S) : S \in SUBSET Elems}

\* SMEMBERS key
SMembers(A, B, n) == IF n = "A" THEN A ELSE B

RECURSIVE SUnion(_, _, _)
\* SUNION key [key ...]
SUnion(A, B, names) ==
  IF names = <<>> THEN {}
  ELSE SMembers(A, B, Head(names)) \cup SUnion(A, B, Tail(names))

RECURSIVE SInter(_, _, _)
\* SINTER key [key ...]
SInter(A, B, names) ==
  IF Len(names) = 1 THEN SMembers(A, B, names[1])
  ELSE SMembers(A, B, Head(names)) \cap SInter(A, B, Tail(names))

\* SDIFF key [key ...]
SDiff(A, B, names) == SMembers(A, B, Head(names)) \ SUnion(A, B, Tail(names))

\* Set.add, on the adapter of key n
SetAdd(c, n, m) ==
  /\ Idle(c)
  /\ setA' = IF n = "A" THEN setA \cup {m} ELSE setA
  /\ setB' = IF n = "B" THEN setB \cup {m} ELSE setB
  /\ last' = Done("sadd", c, 0, 0, m, [A |-> setA, B |-> setB],
                  RBool(m \notin SMembers(setA, setB, n)), <<"sadd">>)
  /\ UNCHANGED <<ListQueueVars, prev, DictVars, ZVars, InstVars, IntVars>>

\* Set.union, called on the adapter of key "A"
UnionOut(A, B, other) ==
  IF other.remote THEN RSet(SUnion(A, B, <<"A", other.name>>))
  ELSE RSet(SMembers(A, B, "A") \cup other.set)

\* Set.intersection
IntersectionOut(A, B, other) ==
  IF other.remote THEN RSet(SInter(A, B, <<"A", other.name>>))
  ELSE RSet(SMembers(A, B, "A") \cap other.set)

OtherNames(others) ==
  [k \in 1..Len(SelectSeq(others, LAMBDA x : x.remote)) |->
     SelectSeq(others, LAMBDA x : x.remote)[k].name]
OtherSets(others) ==
  UNION {others[k].set : k \in {q \in 1..Len(others) : ~others[q].remote}}

\* a difference that would forget its local operands
DifferenceOut_RemoteOnly(A, B, others) ==
  RSet(SDiff(A, B, <<"A">> \o OtherNames(others)))

\* Set.difference(*others)
DifferenceOut(A, B, others) ==
  IF \A k \in 1..Len(others) : others[k].remote
  THEN RSet(SDiff(A, B, <<"A">> \o OtherNames(others)))
  ELSE RSet(SDiff(A, B, <<"A">> \o OtherNames(others)) \ OtherSets(others))

SetRead(c, op, arg, out, cmds) ==
  /\ Idle(c)
  /\ last' = Done(op, c, 0, 0, arg, [A |-> setA, B |-> setB], out, cmds)
  /\ UNCHANGED <<ListQueueVars, OtherVars>>

union(c, other) ==
  SetRead(c, "union", other, UnionOut(setA, setB, other),
          IF other.remote THEN <<"sunion">> ELSE <<"smembers">>)

intersection(c, other) ==
  SetRead(c, "intersection", other, IntersectionOut(setA, setB, other),
          IF other.remote THEN <<"sinter">> ELSE <<"smembers">>)

difference(c, others) ==
  SetRead(c, "difference", others, DifferenceOut(setA, setB, others), <<"sdiff">>)

\* ------------------------------------------------------ Dict adapter
\* HGET key field
HGet(h, key) == IF h[key] = Missing THEN RNone ELSE RVal(h[key])
\* HSET key field value, and its reply (1 for a new field)
HSet(h, key, value) == [h EXCEPT ![key] = value]
HSetReply(h, key) == IF h[key] = Missing THEN 1 ELSE 0
\* HDEL key field, and its reply (the number of fields removed)
HDel(h, key) == [h EXCEPT ![key] = Missing]
HDelReply(h, key) == IF h[key] = Missing THEN 0 ELSE 1

\* Dict.__getitem__
GetItemDict(h, hk, key) ==
  LET value == HGet(h, key)
  IN IF value.t # "none" THEN value
     ELSE IF hk THEN RVal(HookValue)
     ELSE Raise("KeyError")

DictDone(c, op, arg, out, cmds) ==
  /\ last' = Done(op, c, 0, 0, arg, hash, out, cmds)
  /\ prev' = last

DictFrame == <<ListQueueVars, hook, SetVars, InstVars, ZVars, IntVars>>

dict_getitem(c, key) ==
  /\ Idle(c)
  /\ DictDone(c, "dgetitem", [key |-> key], GetItemDict(hash, hook, key), <<"hget">>)
  /\ UNCHANGED <<hash, DictFrame>>

\* Dict.__setitem__
dict_setitem(c, key, value) ==
  /\ Idle(c)
  /\ hash' = HSet(hash, key, value)
  /\ DictDone(c, "dsetitem", [key |-> key, value |-> value],
              RInt(HSetReply(hash, key)), <<"hset">>)
  /\ UNCHANGED DictFrame

\* a __delitem__ that would not look at the store's reply
DelItemOut_Silent(reply) == RNone

\* Dict.__delitem__
DelItemOut(reply) == IF ~Truthy(RInt(reply)) THEN Raise("KeyError") ELSE RNone

dict_delitem(c, key) ==
  /\ Idle(c)
  /\ hash' = HDel(hash, key)
  /\ DictDone(c, "ddelitem", [key |-> key], DelItemOut(HDelReply(hash, key)),
              <<"hdel">>)
  /\ UNCHANGED DictFrame

\* Dict.get(key, default); default is a value, or None when left out
DictGetOut(h, hk, key, default) ==
  IF GetItemDict(h, hk, key) = Raise("KeyError") THEN default
  ELSE GetItemDict(h, hk, key)

dict_get(c, key, default) ==
  /\ Idle(c)
  /\ DictDone(c, "dget", [key |-> key, default |-> default],
              DictGetOut(hash, hook, key, default), <<"hget">>)
  /\ UNCHANGED <<hash, DictFrame>>

\* a pop that would only honour a positional default
PopMissOut_Positional(how, default) ==
  IF how = "positional" THEN default ELSE Raise("KeyError")

\* Dict.pop, the except clause of its lookup: how the default was given
PopMissOut(how, default) ==
  IF how = "positional" THEN default
  ELSE IF how = "keyword" THEN default
  ELSE Raise("KeyError")

\* Dict.pop up to val = self[key]
PopRead(c, key, how, default) ==
  /\ Idle(c)
  /\ IF GetItemDict(hash, hook, key) = Raise("KeyError")
     THEN /\ DictDone(c, "dpop", [key |-> key, how |-> how, default |-> default],
                      PopMissOut(how, default), <<"hget">>)
          /\ UNCHANGED <<pc, call>>
     ELSE /\ pc' = [pc EXCEPT ![c] = "pop"]
          /\ call' = [call EXCEPT ![c] =
                        [key |-> key, how |-> how, default |-> default,
                         val |-> GetItemDict(hash, hook, key)]]
          /\ UNCHANGED <<last, prev>>
  /\ UNCHANGED <<hash, hook, lst, kind, maxsize, initial, waitq, putlog, gotlog, mixed,
                 SetVars, InstVars, ZVars, IntVars>>

\* a pop that would let the KeyError of its delete through
PopDeleteOut_Reraise(val, deleted) == IF deleted.t = "raise" THEN deleted ELSE val

\* Dict.pop after the lookup: try: del(self[key]) / except KeyError: pass,
\* then return val
PopDeleteOut(val, deleted) == val

\* Dict.pop, del(self[key]) with its KeyError ignored, and return val
PopDelete(c) ==
  /\ pc[c] = "pop"
  /\ hash' = HDel(hash, call[c].key)
  /\ DictDone(c, "dpop", [key |-> call[c].key, how |-> call[c].how,
                          default |-> call[c].default],
              PopDeleteOut(call[c].val, DelItemOut(HDelReply(hash, call[c].key))),
              <<"hget", "hdel">>)
  /\ pc' = [pc EXCEPT ![c] = "idle"]
  /\ call' = [call EXCEPT ![c] = NoCall]
  /\ UNCHANGED <<hook, lst, kind, maxsize, initial, waitq, putlog, gotlog, mixed,
                 SetVars, InstVars, ZVars, IntVars>>

\* ------------------------------------------- ZSet, the local sorted set
Present(d) == {m \in Members : d[m] # NoScore}

\* the sort key of ZSet.items: (score, member)
KeyLess(d, m, n) == d[m] < d[n] \/ (d[m] = d[n] /\ Ord[m] < Ord[n])

RECURSIVE Sorted(_, _)
\* sorted(..., key=lambda x: (x[1], x[0])) over the members in S
Sorted(d, S) ==
  IF S = {} THEN <<>>
  ELSE LET first == CHOOSE m \in S : \A n \in S \ {m} : KeyLess(d, m, n)
       IN <<first>> \o Sorted(d, S \ {first})

\* ZSet.items: the (member, score) pairs in ascending order
ZSetItems(d) ==
  [k \in 1..Cardinality(Present(d)) |->
     [m |-> Sorted(d, Present(d))[k], s |-> d[Sorted(d, Present(d))[k]]]]

\* ZSet._as_set
ZSetAsSet(d) == [k \in 1..Len(ZSetItems(d)) |-> ZSetItems(d)[k].m]

\* list.index(member), zero-based
IndexOf(L, m) == (CHOOSE k \in 1..Len(L) : L[k] = m /\ \A q \in 1..(k - 1) : L[q] # m) - 1

\* ZSet.rank
ZSetRank(d, m) == IndexOf(ZSetAsSet(d), m)

\* a revrank that would forget the "- 1"
ZSetRevRank_OffByOne(d, m) == Cardinality(Present(d)) - ZSetRank(d, m)

\* ZSet.revrank
ZSetRevRank(d, m) == Cardinality(Present(d)) - ZSetRank(d, m) - 1

RECURSIVE BisectLeft(_, _, _, _)
\* bisect.bisect_left(a, x, lo, hi); a[mid] of Python is a[mid + 1] here
BisectLeft(a, x, lo, hi) ==
  IF lo < hi
  THEN LET mid == (lo + hi) \div 2
       IN IF a[mid + 1] < x THEN BisectLeft(a, x, mid + 1, hi)
          ELSE BisectLeft(a, x, lo, mid)
  ELSE lo

RECURSIVE BisectRight(_, _, _, _)
\* bisect.bisect_right(a, x, lo, hi)
BisectRight(a, x, lo, hi) ==
  IF lo < hi
  THEN LET mid == (lo + hi) \div 2
       IN IF x < a[mid + 1] THEN BisectRight(a, x, lo, mid)
          ELSE BisectRight(a, x, mid + 1, hi)
  ELSE lo

\* L[i:j] of a Python list, 0 <= i and 0 <= j
PySlice(L, i, j) ==
  LET lo == IF i > Len(L) THEN Len(L) ELSE i
      hi == IF j > Len(L) THEN Len(L) ELSE j
  IN IF lo >= hi THEN <<>> ELSE SubSeq(L, lo + 1, hi)

\* a range_by_score that would bisect to the left of max
ZSetRangeByScore_LeftOfMax(d, min, max) ==
  LET keys == [k \in 1..Len(ZSetItems(d)) |-> ZSetItems(d)[k].s]
      start == BisectLeft(keys, min, 0, Len(keys))
      end == BisectLeft(keys, max, start, Len(keys))
  IN PySlice(ZSetAsSet(d), start, end)

\* ZSet.range_by_score
ZSetRangeByScore(d, min, max) ==
  LET data == ZSetItems(d)
      keys == [k \in 1..Len(data) |-> data[k].s]
      start == BisectLeft(keys, min, 0, Len(keys))
      end == BisectRight(keys, max, start, Len(keys))
  IN PySlice(ZSetAsSet(d), start, end)

\* ZSet.add
ZSetAdd(d, m, s) == [d EXCEPT ![m] = s]
\* ZSet.remove: del self._dict[member]
ZSetRemove(d, m) == [d EXCEPT ![m] = NoScore]
ZSetRemoveOut(d, m) == IF d[m] = NoScore THEN Raise("KeyError") ELSE RNone
\* ZSet.discard
ZSetDiscard(d, m) == IF d[m] # NoScore THEN [d EXCEPT ![m] = NoScore] ELSE d
\* ZSet.increment: self._dict[member] += amount; return self._dict[member]
ZSetIncrement(d, m, amount) ==
  IF d[m] = NoScore THEN d ELSE [d EXCEPT ![m] = d[m] + amount]
ZSetIncrementOut(d, m, amount) ==
  IF d[m] = NoScore THEN Raise("KeyError") ELSE RInt(d[m] + amount)

\* ------------------------------------- SortedSet, the remote sorted set
RECURSIVE Insert(_, _, _)
\* the store keeps its members ordered by score, then by member
Insert(z, L, m) ==
  IF L = <<>> THEN <<m>>
  ELSE IF z[m] < z[Head(L)] \/ (z[m] = z[Head(L)] /\ Ord[m] < Ord[Head(L)])
       THEN <<m>> \o L
  ELSE <<Head(L)>> \o Insert(z, Tail(L), m)

RECURSIVE InsertAll(_, _)
InsertAll(z, S) ==
  IF S = {} THEN <<>>
  ELSE LET m == CHOOSE x \in S : TRUE IN Insert(z, InsertAll(z, S \ {m}), m)

StoreOrder(z) == InsertAll(z, Present(z))

\* ZADD key score member, and its reply (1 for a new member)
ZAdd(z, m, s) == [z EXCEPT ![m] = s]
ZAddReply(z, m) == IF z[m] = NoScore THEN 1 ELSE 0
\* ZREM key member, and its reply
ZRem(z, m) == [z EXCEPT ![m] = NoScore]
ZRemReply(z, m) == IF z[m] = NoScore THEN 0 ELSE 1
\* ZINCRBY key amount member: a missing member starts from 0
ZIncrBy(z, m, amount) ==
  [z EXCEPT ![m] = (IF z[m] = NoScore THEN 0 ELSE z[m]) + amount]
\* ZRANK / ZREVRANK key member, for a member of the set
ZRank(z, m) == IndexOf(StoreOrder(z), m)
StoreOrderDesc(z) ==
  [k \in 1..Len(StoreOrder(z)) |-> StoreOrder(z)[Len(StoreOrder(z)) + 1 - k]]
ZRevRank(z, m) == IndexOf(StoreOrderDesc(z), m)
\* ZRANGEBYSCORE key min max
ZRangeByScore(z, min, max) ==
  SelectSeq(StoreOrder(z), LAMBDA m : min <= z[m] /\ z[m] <= max)
\* ZRANGE key start end (both ends inclusive, negative counts from tail)
ZRange(z, start, end) == LRange(StoreOrder(z), start, end)

\* SortedSet.remove
SortedSetRemoveOut(reply) == IF ~Truthy(RInt(reply)) THEN Raise("KeyError") ELSE RNone

\* ------------------- the same call on the ZSet and on the SortedSet
Both(r, s) == [ref |-> r, rem |-> s]

ZDone(c, op, i, j, m, outRef, outRem, cmds) ==
  /\ last' = Done(op, c, i, j, m, Both(zdict, zstore), Both(outRef, outRem), cmds)

ZFrame == <<ListQueueVars, prev, SetVars, InstVars, DictVars, IntVars>>

\* ZSet.add / SortedSet.add
add(c, m, s) ==
  /\ Idle(c)
  /\ zdict' = ZSetAdd(zdict, m, s)
  /\ zstore' = ZAdd(zstore, m, s)
  /\ ZDone(c, "zadd", s, 0, m, RNone, RInt(ZAddReply(zstore, m)), <<"zadd">>)
  /\ UNCHANGED ZFrame

\* ZSet.remove / SortedSet.remove
remove(c, m) ==
  /\ Idle(c)
  /\ zdict' = IF zdict[m] = NoScore THEN zdict ELSE ZSetRemove(zdict, m)
  /\ zstore' = ZRem(zstore, m)
  /\ ZDone(c, "zremove", 0, 0, m, ZSetRemoveOut(zdict, m),
           SortedSetRemoveOut(ZRemReply(zstore, m)), <<"zrem">>)
  /\ UNCHANGED ZFrame

\* ZSet.discard / SortedSet.discard
discard(c, m) ==
  /\ Idle(c)
  /\ zdict' = ZSetDiscard(zdict, m)
  /\ zstore' = ZRem(zstore, m)
  /\ ZDone(c, "zdiscard", 0, 0, m, RNone, RNone, <<"zrem">>)
  /\ UNCHANGED ZFrame

\* ZSet.increment / SortedSet.increment
increment(c, m, amount) ==
  /\ Idle(c)
  /\ zdict[m] + amount <= MaxScore
  /\ zstore[m] + amount <= MaxScore
  /\ zdict' = ZSetIncrement(zdict, m, amount)
  /\ zstore' = ZIncrBy(zstore, m, amount)
  /\ ZDone(c, "zincrement", amount, 0, m, ZSetIncrementOut(zdict, m, amount),
           RInt(ZIncrBy(zstore, m, amount)[m]), <<"zincrby">>)
  /\ UNCHANGED ZFrame

\* ZSet.range_by_score / SortedSet.range_by_score
range_by_score(c, min, max) ==
  /\ Idle(c)
  /\ ZDone(c, "zrangebyscore", min, max, "", RList(ZSetRangeByScore(zdict, min, max)),
           RList(ZRangeByScore(zstore, min, max)), <<"zrangebyscore">>)
  /\ UNCHANGED <<ZVars, ZFrame>>

\* --------------------------------- SortedSet indexing and its items view
\* s.start or 0, s.stop or -1: a bound is None (left out) or an integer
SliceStart(start) == IF Truthy(start) THEN start.v ELSE 0
SliceStop(stop) == IF Truthy(stop) THEN stop.v ELSE -1

\* SortedSet.items(start, end, desc=False, withscores=False)
SortedSetItems(z, start, end) == ZRange(z, start, end)

\* _itemsview.__getitem__(slice(start, stop)) of keysview()
ViewSliceOut(z, start, stop) ==
  LET i == SliceStart(start)
      j == SliceStop(stop) - 1
  IN RList(SortedSetItems(z, i, j))

\* _itemsview.__getitem__(s) for an integer s
ViewIndexOut(z, s) ==
  IF SortedSetItems(z, s, s) = <<>> THEN Raise("IndexError")
  ELSE RVal(SortedSetItems(z, s, s)[1])

\* SortedSet.__getitem__(slice(start, stop))
SortedSetSliceOut(z, start, stop) ==
  LET i == SliceStart(start)
      j == SliceStop(stop) - 1
  IN RList(ZRange(z, i, j))

\* SortedSet.__getitem__(s) for an integer s
SortedSetIndexOut(z, s) == RList(ZRange(z, s, s))

ZRead(c, op, start, stop, out) ==
  /\ Idle(c)
  /\ last' = Done(op, c, start, stop, "", Both(zdict, zstore), out, <<"zrange">>)
  /\ UNCHANGED <<ZVars, ZFrame>>

view_getslice(c, start, stop) ==
  ZRead(c, "view_slice", start, stop, ViewSliceOut(zstore, start, stop))

view_getindex(c, s) ==
  ZRead(c, "view_index", RInt(s), RNone, ViewIndexOut(zstore, s))

sortedset_getslice(c, start, stop) ==
  ZRead(c, "sortedset_slice", start, stop, SortedSetSliceOut(zstore, start, stop))

sortedset_getindex(c, s) ==
  ZRead(c, "sortedset_index", RInt(s), RNone, SortedSetIndexOut(zstore, s))

\* --------------------------------------- ZSet instances and their _dict
\* def __init__(self, initial={}): the default value is one mapping object,
\* made when the function is defined; self._dict = initial keeps the
\* reference to whichever object came in.
Instances == {1, 2}
DefaultObject == "default"
\* the mapping object the caller passes when it constructs instance i
Passed(i) == IF i = 1 THEN "m1" ELSE "m2"
EmptyDict == [m \in Members |-> NoScore]

\* ZSet.__init__: the object that becomes self._dict
ZSetInit(given) == IF given = "" THEN DefaultObject ELSE given

\* one call on instance i: it works on the object self._dict refers to
InstanceCall(i, op, m, s, after, out) ==
  /\ Idle(1)
  /\ heap' = [heap EXCEPT ![ref[i].obj] = after]
  /\ last' = Done(op, 1, i, s, m, heap, out, <<>>)
  /\ UNCHANGED <<ref, ListQueueVars, prev, SetVars, DictVars, ZVars, IntVars>>

instance_add(i, m, s) ==
  InstanceCall(i, "instance_add", m, s, ZSetAdd(heap[ref[i].obj], m, s), RNone)

instance_remove(i, m) ==
  InstanceCall(i, "instance_remove", m, 0, ZSetRemove(heap[ref[i].obj], m),
               ZSetRemoveOut(heap[ref[i].obj], m))

instance_discard(i, m) ==
  InstanceCall(i, "instance_discard", m, 0, ZSetDiscard(heap[ref[i].obj], m), RNone)

instance_increment(i, m, amount) ==
  /\ heap[ref[i].obj][m] + amount <= MaxScore
  /\ InstanceCall(i, "instance_increment", m, amount,
                  ZSetIncrement(heap[ref[i].obj], m, amount),
                  ZSetIncrementOut(heap[ref[i].obj], m, amount))

\* ------------------------------------------------------------ Int adapter
\* The store's INCRBY and DECRBY: one command, applied to the stored value.
IncrBy(v, d) == v + d
DecrBy_Incr(v, d) == v + d
DecrBy(v, d) == v - d

InitialValues == {-1, 0, 1}

IntFrame == <<lst, kind, maxsize, initial, waitq, putlog, gotlog, mixed, prev,
              SetVars, InstVars, DictVars, ZVars>>

\* a caller evaluates x += d or x -= d: the command leaves for the store
InPlaceCall(c, op, d, signed) ==
  /\ Idle(c)
  /\ Len(deltas) < MaxOps
  /\ pc' = [pc EXCEPT ![c] = op]
  /\ call' = [call EXCEPT ![c] = [amount |-> d]]
  /\ deltas' = Append(deltas, signed)
  /\ UNCHANGED <<counter, counter0, last, IntFrame>>

\* the store executes the command and the method returns self
InPlaceReturn(c, op, value, cmd) ==
  /\ pc[c] = op
  /\ counter' = value
  /\ pc' = [pc EXCEPT ![c] = "idle"]
  /\ call' = [call EXCEPT ![c] = NoCall]
  /\ last' = Done(op, c, call[c].amount, 0, "", counter, RInt(value), <<cmd>>)
  /\ UNCHANGED <<counter0, deltas, IntFrame>>

\* Int.__iadd__: self.client.incr(self.name, other); return self
iadd_call(c, d) == InPlaceCall(c, "iadd", d, d)
iadd_return(c) ==
  InPlaceReturn(c, "iadd", IncrBy(counter, call[c].amount), "incrby")

\* Int.__isub__: self.client.decr(self.name, other); return self
isub_call(c, d) == InPlaceCall(c, "isub", d, -d)
isub_return(c) ==
  InPlaceReturn(c, "isub", DecrBy(counter, call[c].amount), "decrby")

\* ---------------------------------------------------- specifications
InitCommon ==
  /\ lst = <<>>
  /\ pc = [c \in Callers |-> "idle"]
  /\ call = [c \in Callers |-> NoCall]
  /\ waitq = <<>>
  /\ putlog = <<>>
  /\ gotlog = <<>>
  /\ mixed = FALSE
  /\ last = Done("none", 1, 0, 0, "", <<>>, RNone, <<>>)
  /\ prev = Done("none", 1, 0, 0, "", <<>>, RNone, <<>>)

\* The keys of the other adapters, unused.
NoSets == setA = {} /\ setB = {}
NoDict == hash = [k \in Fields |-> Missing] /\ hook = FALSE
NoZSets == zdict = [m \in Members |-> NoScore] /\ zstore = [m \in Members |-> NoScore]
NoInstances ==
  /\ heap = [o \in {DefaultObject} \cup {Passed(i) : i \in Instances} |-> EmptyDict]
  /\ ref = [i \in Instances |-> [obj |-> DefaultObject, initial |-> EmptyDict]]
NoInt == counter = 0 /\ counter0 = 0 /\ deltas = <<>>
NoQueue == kind = "fifo" /\ maxsize = 0 /\ initial = <<>>

\* One List adapter on an empty key, one caller.
InitList == InitCommon /\ NoQueue /\ NoSets /\ NoDict /\ NoZSets /\ NoInt /\ NoInstances

NextList ==
  \/ \E i \in -MaxIdx..MaxIdx : GetItem(1, i)
  \/ \E i \in -MaxIdx..MaxIdx, v \in Values : SetItem(1, i, v)
  \/ \E i \in 0..MaxIdx, j \in 0..MaxIdx : GetSlice(1, i, j)
  \/ \E v \in Values, n \in 0..MaxCount : Remove(1, v, n)
  \/ \E i \in 0..MaxIdx, j \in 0..MaxIdx : Trim(1, i, j)
  \/ \E v \in Values : ListAppend(1, v)
  \/ \E v \in Values : AppendLeft(1, v)
  \/ Pop(1)
  \/ PopLeft(1)

SpecList == InitList /\ [][NextList]_vars

\* A Queue or LifoQueue constructed on an empty key, with some maxsize.
InitQueue ==
  /\ InitCommon
  /\ NoSets /\ NoDict /\ NoZSets /\ NoInt /\ NoInstances
  /\ kind \in {"fifo", "lifo"}
  /\ maxsize \in 0..MaxSize
  /\ initial = <<>>

Step(c) ==
  \/ full(c)
  \/ \E x \in Items : PutCheck(c, x)
  \/ PutPush(c)
  \/ get_nowait(c)
  \/ \E t \in {NoTimeout, MaxTimeout} : GetNoBlock(c, t)
  \/ \E t \in {NoTimeout} \cup 1..MaxTimeout : GetBlock(c, t)
  \/ Timeout(c)

\* Several callers on the same queue key.
Next == (\E c \in Callers : Step(c)) \/ Serve \/ Tick
Spec == InitQueue /\ [][Next]_vars

\* One caller, which is alone on the key.
NextSingle == Step(1) \/ Tick
SpecSingle == InitQueue /\ [][NextSingle]_vars

\* Two Set adapters, on the keys "A" and "B", both empty.
InitSet == InitCommon /\ NoQueue /\ NoSets /\ NoDict /\ NoZSets /\ NoInt /\ NoInstances

NextSet ==
  \/ \E n \in {"A", "B"}, m \in Elems : SetAdd(1, n, m)
  \/ \E other \in Operands : union(1, other)
  \/ \E other \in Operands : intersection(1, other)
  \/ \E o1 \in Operands : difference(1, <<o1>>)
  \/ \E o1 \in Operands, o2 \in Operands : difference(1, <<o1, o2>>)

SpecSet == InitSet /\ [][NextSet]_vars

\* One Dict adapter on an empty key; its class may define __missing__.
InitDict ==
  /\ InitCommon /\ NoQueue /\ NoSets /\ NoZSets /\ NoInt /\ NoInstances
  /\ hash = [k \in Fields |-> Missing]
  /\ hook \in BOOLEAN

DefaultArgs == {RNone} \cup {RVal(d) : d \in Defaults}

StepDict(c) ==
  \/ \E key \in Fields : dict_getitem(c, key)
  \/ \E key \in Fields, value \in DictValues : dict_setitem(c, key, value)
  \/ \E key \in Fields : dict_delitem(c, key)
  \/ \E key \in Fields, default \in DefaultArgs : dict_get(c, key, default)
  \/ \E key \in Fields : PopRead(c, key, "none", RNone)
  \/ \E key \in Fields, how \in {"positional", "keyword"}, default \in DefaultArgs :
       PopRead(c, key, how, default)
  \/ PopDelete(c)

\* One caller on the Dict.
NextDict == StepDict(1)
SpecDict == InitDict /\ [][NextDict]_vars

\* Several callers on the same Dict key.
NextDictShared ==
  \E c \in Callers, key \in Fields :
    \/ dict_setitem(c, key, "v")
    \/ dict_delitem(c, key)
    \/ PopRead(c, key, "none", RNone)
    \/ PopDelete(c)

SpecDictShared == InitDict /\ [][NextDictShared]_vars

\* A ZSet() and a SortedSet on an empty key, given the same calls.
InitZSet ==
  /\ InitCommon /\ NoQueue /\ NoSets /\ NoDict /\ NoInt /\ NoInstances
  /\ zdict = [m \in Members |-> NoScore]
  /\ zstore = [m \in Members |-> NoScore]

SliceBounds == {RNone} \cup {RInt(n) : n \in 0..Cardinality(Members)}

NextZSet ==
  \/ \E m \in Members, s \in 0..MaxScore : add(1, m, s)
  \/ \E m \in Members : remove(1, m)
  \/ \E m \in Members : discard(1, m)
  \/ \E m \in Members, amount \in Amounts : increment(1, m, amount)
  \/ \E min \in -1..(MaxScore + 1), max \in -1..(MaxScore + 1) : range_by_score(1, min, max)

SpecZSet == InitZSet /\ [][NextZSet]_vars

\* A SortedSet filled by add and remove, read by index and through its view.
NextView ==
  \/ \E m \in Members, s \in 0..MaxScore : add(1, m, s)
  \/ \E m \in Members : remove(1, m)
  \/ \E start \in SliceBounds, stop \in SliceBounds : view_getslice(1, start, stop)
  \/ \E s \in 0..(Cardinality(Members) - 1) : view_getindex(1, s)
  \/ \E start \in SliceBounds, stop \in SliceBounds : sortedset_getslice(1, start, stop)
  \/ \E s \in 0..(Cardinality(Members) - 1) : sortedset_getindex(1, s)

SpecView == InitZSet /\ [][NextView]_vars

\* One Int key, several callers updating it in place.
InitInt ==
  /\ InitCommon /\ NoQueue /\ NoSets /\ NoDict /\ NoZSets /\ NoInstances
  /\ counter \in InitialValues
  /\ counter0 = counter
  /\ deltas = <<>>

StepInt(c) ==
  \/ \E d \in Amounts : iadd_call(c, d)
  \/ iadd_return(c)
  \/ \E d \in Amounts : isub_call(c, d)
  \/ isub_return(c)

NextInt == \E c \in Callers : StepInt(c)

SpecInt == InitInt /\ [][NextInt]_vars

\* Two ZSet instances, each constructed without initial contents or with
\* a mapping of the caller's own.
InitInstances ==
  /\ InitCommon /\ NoQueue /\ NoSets /\ NoDict /\ NoZSets /\ NoInt
  /\ heap \in [{DefaultObject} \cup {Passed(i) : i \in Instances} ->
                 {EmptyDict, [EmptyDict EXCEPT !["a"] = 1]}]
  /\ heap[DefaultObject] = EmptyDict
  /\ \E given \in [Instances -> {"", "own"}] :
       ref = [i \in Instances |->
                [obj |-> ZSetInit(IF given[i] = "" THEN "" ELSE Passed(i)),
                 initial |-> heap[ZSetInit(IF given[i] = "" THEN "" ELSE Passed(i))]]]

NextInstances ==
  \E i \in Instances, m \in {"a", "b"} :
    \/ \E s \in 0..MaxScore : instance_add(i, m, s)
    \/ instance_remove(i, m)
    \/ instance_discard(i, m)
    \/ \E amount \in Amounts : instance_increment(i, m, amount)

SpecInstances == InitInstances /\ [][NextInstances]_vars

\* Two callers on one List key; each extends it once with values of its own.
Own(c) == IF c = 1 THEN {"a", "b"} ELSE {"x", "y"}
OwnSeqs(c) ==
  {<<>>} \cup {<<v>> : v \in Own(c)}
         \cup {xs \in Own(c) \X Own(c) : xs[1] # xs[2]}

StepExtend(c) ==
  \/ \E xs \in OwnSeqs(c), left \in BOOLEAN : ExtendCall(c, xs, left)
  \/ ExtendPush(c)
  \/ GetSlice(c, 0, MaxIdx)

NextExtend == \E c \in Callers : StepExtend(c)
SpecExtend == InitList /\ [][NextExtend]_vars

\* A FIFO Queue constructed on an empty key with initial contents, one caller.
Seeds == {<<>>} \cup {<<v>> : v \in {"b", "c"}}
              \cup {<<v, w>> : v \in {"b", "c"}, w \in {"b", "c"}}

InitSeeded ==
  /\ initial \in Seeds
  /\ lst = ListExtend(<<>>, initial)
  /\ kind = "fifo" /\ maxsize = 0
  /\ pc = [c \in Callers |-> "idle"]
  /\ call = [c \in Callers |-> NoCall]
  /\ waitq = <<>> /\ putlog = <<>> /\ gotlog = <<>> /\ mixed = FALSE
  /\ last = Done("none", 1, 0, 0, "", <<>>, RNone, <<>>)
  /\ prev = Done("none", 1, 0, 0, "", <<>>, RNone, <<>>)
  /\ NoSets /\ NoDict /\ NoZSets /\ NoInt /\ NoInstances

NextSeeded ==
  \/ \E x \in Items : PutCheck(1, x)
  \/ PutPush(1)
  \/ get_nowait(1)

SpecSeeded == InitSeeded /\ [][NextSeeded]_vars

\* ------------------------------------------------ reference notions
\* What the claims speak of, written without the store commands above.
Min(a, b) == IF a < b THEN a ELSE b

\* elements at zero-based positions p with i <= p < j, in order
Between(L, i, j) ==
  LET lo == Min(i, Len(L))
      hi == Min(j, Len(L))
  IN IF hi <= lo THEN <<>> ELSE [k \in 1..(hi - lo) |-> L[lo + k]]

RECURSIVE Without(_, _)
Without(L, v) ==
  IF L = <<>> THEN <<>>
  ELSE IF Head(L) = v THEN Without(Tail(L), v)
  ELSE <<Head(L)>> \o Without(Tail(L), v)

RECURSIVE IsSubsequence(_, _)
\* S can be obtained from L by deleting elements
IsSubsequence(S, L) ==
  IF S = <<>> THEN TRUE
  ELSE IF L = <<>> THEN FALSE
  ELSE IF Head(S) = Head(L) THEN IsSubsequence(Tail(S), Tail(L))
  ELSE IsSubsequence(S, Tail(L))

Reverse(L) == [k \in 1..Len(L) |-> L[Len(L) + 1 - k]]

\* the position, counted from 1, that a Python index designates, or 0
Position(L, i) ==
  IF i >= 0 /\ i < Len(L) THEN i + 1
  ELSE IF i < 0 /\ Len(L) + i >= 0 THEN Len(L) + i + 1
  ELSE 0

\* the element a get takes from list L of a queue of kind k
NextOut(k, L) == IF k = "fifo" THEN L[Len(L)] ELSE Head(L)
AfterGet(k, L) == IF k = "fifo" THEN SubSeq(L, 1, Len(L) - 1) ELSE Tail(L)

\* ------------------------------------------------------------ claims
\* C1: single caller, empty key: puts x1..xn followed by gets, be they
\* get_nowait or blocking get, return x1..xn in put order from a FIFO
\* Queue and xn..x1 from a LifoQueue.
C1_QueueOrder ==
  ~mixed =>
    /\ Len(gotlog) <= Len(putlog)
    /\ \A k \in 1..Len(gotlog) :
         gotlog[k] = RVal(IF kind = "fifo" THEN putlog[k]
                          ELSE Reverse(putlog)[k])

\* C2: full() is true exactly when maxsize = m > 0 and the length is >= m
\* (from empty: false after fewer than m puts, true after m); with
\* maxsize = 0 it is always false; it never changes the stored list.
C2_Full ==
  last.op = "full" =>
    /\ last.out = RBool(maxsize > 0 /\ Len(last.pre) >= maxsize)
    /\ maxsize = 0 => last.out = RBool(FALSE)
    /\ gotlog = <<>> => last.out = RBool(maxsize > 0 /\ Len(putlog) >= maxsize)
    /\ lst = last.pre

C2_Witness ==
  /\ last.op = "full"
  /\ maxsize = 2
  /\ Len(putlog) = 2
  /\ gotlog = <<>>
  /\ last.out = RBool(TRUE)

\* C3: put(item) when full() reports true fails with Full, pushes nothing
\* and leaves the list unchanged; when full() reports false it pushes
\* exactly the item at the insertion end (the head) and the length grows
\* by one.  last.j is the length full() saw.
C3_Put ==
  last.op = "put" =>
    IF maxsize > 0 /\ last.j >= maxsize
    THEN /\ last.out = Raise("Full")
         /\ lst = last.pre
         /\ \A k \in 1..Len(last.cmds) : last.cmds[k] = "llen"
    ELSE /\ last.out = RNone
         /\ lst = <<last.v>> \o last.pre
         /\ Len(lst) = Len(last.pre) + 1
         /\ Cardinality({k \in 1..Len(last.cmds) : last.cmds[k] # "llen"}) = 1

C3_Witness ==
  /\ last.op = "put"
  /\ maxsize = 1
  /\ last.pre # <<>>
  /\ last.out = Raise("Full")
  /\ lst = last.pre

\* C4: get(block=True, timeout=t), t > 0: when the queue stays empty it
\* fails with Empty once t has elapsed, not before, and leaves the queue
\* unchanged; when an element becomes available first it returns that
\* element.  last.i is t, last.j the time waited.
C4_TimedGet ==
  (last.op = "get" /\ last.i > 0) =>
    IF last.pre = <<>>
    THEN last.out = Raise("Empty") /\ last.j = last.i /\ lst = <<>>
    ELSE /\ last.j <= last.i
         /\ last.out = RVal(NextOut(kind, last.pre))
         /\ lst = AfterGet(kind, last.pre)

\* C5: get(block=True, timeout=None) never fails with Empty, stays blocked
\* while the queue is empty, and returns the element a producer puts.
C5_BlockingGet ==
  /\ (last.op = "get" /\ last.i = NoTimeout) =>
        /\ last.pre # <<>>
        /\ last.out = RVal(NextOut(kind, last.pre))
        /\ lst = AfterGet(kind, last.pre)
  /\ \A c \in Callers :
        (pc[c] = "blocked" /\ call[c].t = NoTimeout) =>
           (lst = <<>> \/ ServePending)

\* C6: get_nowait() issues exactly one non-blocking pop; on an empty queue
\* it fails with Empty at once and the queue stays empty, otherwise it
\* removes and returns exactly one element; get(block=False, timeout=t)
\* does the same for every t and never waits: the one pop is its only
\* store command.
C6_NonBlockingGet ==
  last.op \in {"get_nowait", "get_noblock"} =>
    /\ last.cmds = <<IF kind = "fifo" THEN "rpop" ELSE "lpop">>
    /\ IF last.pre = <<>>
       THEN last.out = Raise("Empty") /\ lst = <<>>
       ELSE /\ last.out = RVal(NextOut(kind, last.pre))
            /\ lst = AfterGet(kind, last.pre)

C6_Witness ==
  /\ last.op = "get_noblock"
  /\ last.i = MaxTimeout
  /\ last.pre # <<>>
  /\ last.out = RVal("")
  /\ Len(lst) = Len(last.pre) - 1

\* C7: slice(i, j) with i >= 0 and j >= 0 returns exactly the elements at
\* zero-based positions p with i <= p < j, in order (empty when j <= i,
\* j = 0 included), and does not modify the list.
C7_SliceHalfOpen ==
  last.op = "getslice" =>
    /\ last.out.t = "list"
    /\ last.out.v = Between(last.pre, last.i, last.j)
    /\ lst = last.pre

\* C8: remove(value, count=k), k >= 1, on a list with c occurrences of
\* value removes min(c, k) of them and returns that number, leaving the
\* other elements and the relative order as they were; with c = 0 it
\* raises ValueError and leaves the list unchanged.
C8_RemoveCount ==
  (last.op = "remove" /\ last.i >= 1) =>
    LET c == Occurrences(last.pre, last.v)
        m == Min(c, last.i)
    IN IF c = 0
       THEN last.out = Raise("ValueError") /\ lst = last.pre
       ELSE /\ last.out = RInt(m)
            /\ Occurrences(lst, last.v) = c - m
            /\ Len(lst) = Len(last.pre) - m
            /\ Without(lst, last.v) = Without(last.pre, last.v)
            /\ IsSubsequence(lst, last.pre)

C8_Witness ==
  /\ last.op = "remove"
  /\ last.i = 2
  /\ Occurrences(last.pre, last.v) = 1
  /\ Len(last.pre) = 3
  /\ last.out = RInt(1)

\* C9: get(index) returns the element stored at index; it raises
\* IndexError when there is no element there, and also when the element
\* there is falsy (the empty value); the list is unchanged in every case.
C9_GetItem ==
  last.op = "getitem" =>
    LET p == Position(last.pre, last.i)
    IN /\ lst = last.pre
       /\ (p # 0 /\ last.pre[p] # "") => last.out = RVal(last.pre[p])
       /\ (p = 0 \/ last.pre[p] = "") => last.out = Raise("IndexError")

C9_Witness ==
  /\ last.op = "getitem"
  /\ Position(last.pre, last.i) # 0
  /\ last.pre[Position(last.pre, last.i)] = ""
  /\ last.out = Raise("IndexError")

\* C10: set(index, value) raises IndexError when the store rejects the
\* command as index out of range and re-raises any other store error
\* unchanged; on failure the list is unchanged, on success only the
\* position index changes.
C10_SetItem ==
  last.op = "setitem" =>
    LET err == LSetError(last.pre, last.i)
        p == Position(last.pre, last.i)
    IN /\ err = "index out of range" =>
            last.out = Raise("IndexError") /\ lst = last.pre
       /\ err \notin {"", "index out of range"} =>
            last.out = RaiseMsg("ResponseError", err) /\ lst = last.pre
       /\ err = "" =>
            /\ last.out = RNone
            /\ p # 0
            /\ Len(lst) = Len(last.pre)
            /\ lst[p] = last.v
            /\ \A k \in 1..Len(lst) : k # p => lst[k] = last.pre[k]

C10_Witness ==
  /\ last.op = "setitem"
  /\ last.pre # <<>>
  /\ last.out = Raise("IndexError")
  /\ lst = last.pre

\* C20: after trim(start, stop), start >= 0 and stop >= 0, the list holds
\* exactly the elements formerly at positions p with start <= p < stop, in
\* their order; it is empty whenever stop <= start, stop = 0 included.
C20_TrimHalfOpen ==
  last.op = "trim" => lst = Between(last.pre, last.i, last.j)


\* C11: union(B), intersection(B) and difference(B) called on the Set A
\* return the member sets A \cup B, A \cap B and A \ B, for B another
\* remote Set and for B a plain local set alike, and none of them changes
\* a stored set.
OperandMembers(pre, other) == IF other.remote THEN pre.B ELSE other.set

C11_SetAlgebra ==
  /\ last.op = "union" =>
       /\ last.out = RSet(last.pre.A \cup OperandMembers(last.pre, last.v))
       /\ setA = last.pre.A /\ setB = last.pre.B
  /\ last.op = "intersection" =>
       /\ last.out = RSet(last.pre.A \cap OperandMembers(last.pre, last.v))
       /\ setA = last.pre.A /\ setB = last.pre.B
  /\ (last.op = "difference" /\ Len(last.v) = 1) =>
       /\ last.out = RSet(last.pre.A \ OperandMembers(last.pre, last.v[1]))
       /\ setA = last.pre.A /\ setB = last.pre.B

C11_Witness ==
  /\ last.op = "difference"
  /\ Len(last.v) = 1
  /\ ~last.v[1].remote
  /\ last.v[1].set = last.pre.B
  /\ last.pre.A = {"x", "y"}
  /\ last.pre.B = {"y", "z"}
  /\ last.out = RSet({"x"})


\* C12: set(k, v) followed by get(k) returns v; delete(k) of a present
\* key followed by get(k) raises KeyError when no missing-key hook is
\* registered; delete(k) of an absent key raises KeyError and leaves the
\* mapping unchanged; set and delete affect no other key.
C12_RoundTrip ==
  /\ last.op = "dsetitem" =>
       /\ hash[last.v.key] = last.v.value
       /\ \A k \in Fields : k # last.v.key => hash[k] = last.pre[k]
  /\ (last.op = "dgetitem" /\ prev.op = "dsetitem" /\ prev.v.key = last.v.key) =>
       last.out = RVal(prev.v.value)
  /\ last.op = "ddelitem" =>
       /\ \A k \in Fields : k # last.v.key => hash[k] = last.pre[k]
       /\ IF last.pre[last.v.key] = Missing
          THEN last.out = Raise("KeyError") /\ hash = last.pre
          ELSE last.out = RNone /\ hash[last.v.key] = Missing
  /\ (last.op = "dgetitem" /\ prev.op = "ddelitem" /\ prev.v.key = last.v.key
        /\ prev.pre[prev.v.key] # Missing /\ ~hook) =>
       last.out = Raise("KeyError")

C12_Witness ==
  /\ last.op = "dgetitem"
  /\ prev.op = "dsetitem"
  /\ prev.v.key = last.v.key
  /\ prev.v.value = ""
  /\ last.out = RVal("")
  /\ \E k \in Fields : k # last.v.key /\ hash[k] = "v"

\* C13: single caller, no missing-key hook: pop of a present key returns
\* the stored value and leaves the key absent and every other key as it
\* was; pop of an absent key returns the default given positionally or by
\* keyword, else raises KeyError, and leaves the mapping unchanged.
C13_Pop ==
  (last.op = "dpop" /\ ~hook) =>
    IF last.pre[last.v.key] # Missing
    THEN /\ last.out = RVal(last.pre[last.v.key])
         /\ hash = [last.pre EXCEPT ![last.v.key] = Missing]
    ELSE /\ hash = last.pre
         /\ last.v.how \in {"positional", "keyword"} => last.out = last.v.default
         /\ last.v.how = "none" => last.out = Raise("KeyError")

C13_Witness ==
  /\ last.op = "dpop"
  /\ ~hook
  /\ last.pre[last.v.key] = Missing
  /\ last.v.how = "keyword"
  /\ last.out = RVal("d")
  /\ \E k \in Fields : hash[k] # Missing

\* C14: getOrDefault(key, default) returns the stored value when the key
\* is present and default when it is absent, never raises and never
\* modifies the mapping, with or without a missing-key hook.
C14_GetOrDefault ==
  last.op = "dget" =>
    /\ hash = last.pre
    /\ last.out.t # "raise"
    /\ last.pre[last.v.key] # Missing => last.out = RVal(last.pre[last.v.key])
    /\ last.pre[last.v.key] = Missing => last.out = last.v.default


\* ascending (score, member) order, by counting the members below
Below(d, S, m) ==
  {n \in S : d[n] < d[m] \/ (d[n] = d[m] /\ Ord[n] < Ord[m])}
Ascending(d, S) ==
  [k \in 1..Cardinality(S) |-> CHOOSE m \in S : Cardinality(Below(d, S, m)) = k - 1]
InRange(d, min, max) == {m \in Present(d) : min <= d[m] /\ d[m] <= max}

\* C15: ZSet.range_by_score(min, max) returns exactly the members whose
\* score s has min <= s <= max, in ascending (score, member) order, for
\* every dataset and every min, max; it is what the remote store's
\* range-by-score returns on the same dataset.
C15_RangeByScore ==
  last.op = "zrangebyscore" =>
    /\ last.out.ref = RList(Ascending(last.pre.ref, InRange(last.pre.ref, last.i, last.j)))
    /\ last.pre.ref = last.pre.rem => last.out.ref = last.out.rem

C15_Witness ==
  /\ last.op = "zrangebyscore"
  /\ last.pre.ref = last.pre.rem
  /\ last.pre.ref["a"] = 2 /\ last.pre.ref["b"] = 1 /\ last.pre.ref["c"] = 1
  /\ last.i = 1 /\ last.j = 2
  /\ last.out.ref = RList(<<"b", "c", "a">>)

\* C16: after any sequence of add / remove / discard / increment, for
\* every member m of the set rank(m) is its zero-based position in
\* ascending (score, member) order and rank(m) + revrank(m) = count - 1;
\* on the ZSet and on the SortedSet.
C16_RankSymmetry ==
  /\ \A m \in Present(zdict) :
       /\ ZSetRank(zdict, m) = Cardinality(Below(zdict, Present(zdict), m))
       /\ ZSetRank(zdict, m) + ZSetRevRank(zdict, m) = Cardinality(Present(zdict)) - 1
  /\ \A m \in Present(zstore) :
       /\ ZRank(zstore, m) = Cardinality(Below(zstore, Present(zstore), m))
       /\ ZRank(zstore, m) + ZRevRank(zstore, m) = Cardinality(Present(zstore)) - 1

C16_Witness ==
  /\ last.op = "zincrement"
  /\ last.out.ref.t = "int"
  /\ Cardinality(Present(zdict)) = 3
  /\ zdict["a"] = 2 /\ zdict["b"] = 1 /\ zdict["c"] = 1
  /\ ZSetRank(zdict, "a") = 2
  /\ ZSetRevRank(zdict, "b") = 2

\* C17: the same sequence of add, remove, discard and increment applied
\* to an empty ZSet and to a SortedSet on an empty key has at every step
\* the same kind of outcome on both (success, or KeyError) and leaves both
\* with the same member-to-score mapping and the same ascending order,
\* increment of a member not yet in the set included.
OutcomeKind(out) == IF out.t = "raise" THEN out.e ELSE "success"

C17_Parity ==
  /\ zdict = zstore
  /\ ZSetAsSet(zdict) = StoreOrder(zstore)
  /\ last.op \in {"zadd", "zremove", "zdiscard", "zincrement"} =>
       OutcomeKind(last.out.ref) = OutcomeKind(last.out.rem)

\* C18: for a view over a sorted set with members e0..e(n-1) in ascending
\* order, view[i:j] with 0 <= i <= j <= n is ei..e(j-1), view[i:] is
\* everything from position i through the last member, and view[k] with
\* 0 <= k < n is ek; the same for the SortedSet adapter itself.
C18_ViewIndexing ==
  LET e == Ascending(last.pre.rem, Present(last.pre.rem))
      n == Len(e)
      i == IF last.i.t = "none" THEN 0 ELSE last.i.v
  IN /\ (last.op \in {"view_slice", "sortedset_slice"} /\ i <= n) =>
          IF last.j.t = "none"
          THEN last.out = RList(Between(e, i, n))
          ELSE (i <= last.j.v /\ last.j.v <= n) =>
                  last.out = RList(Between(e, i, last.j.v))
     /\ (last.op \in {"view_index", "sortedset_index"} /\ last.i.v < n) =>
          last.out = RVal(e[last.i.v + 1])


RECURSIVE Sum(_)
Sum(L) == IF L = <<>> THEN 0 ELSE Head(L) + Sum(Tail(L))

\* the signed amount of the command caller c has on its way to the store
InFlight(c) ==
  IF pc[c] = "iadd" THEN call[c].amount
  ELSE IF pc[c] = "isub" THEN -call[c].amount
  ELSE 0

RECURSIVE SumInFlight(_)
SumInFlight(S) ==
  IF S = {} THEN 0
  ELSE LET c == CHOOSE x \in S : TRUE IN InFlight(c) + SumInFlight(S \ {c})

\* C19: each in-place += d and -= d is a single store increment or
\* decrement command, so in every interleaving of the callers' updates
\* the counter equals its initial value plus the sum of the deltas of the
\* updates that have returned: when no update is on its way, the initial
\* value plus the sum of all deltas. No update is lost.
C19_NoLostUpdate ==
  /\ counter = counter0 + Sum(deltas) - SumInFlight(Callers)
  /\ last.op = "iadd" => last.cmds = <<"incrby">> /\ last.out = RInt(last.pre + last.i)
  /\ last.op = "isub" => last.cmds = <<"decrby">> /\ last.out = RInt(last.pre - last.i)

C19_Witness ==
  /\ \A c \in Callers : pc[c] = "idle"
  /\ deltas = <<1, -2, 2>>
  /\ last.op = "iadd" /\ last.c = 1 /\ last.i = 1 /\ last.pre = counter0
  /\ counter = counter0 + 1


\* C24: add, remove, discard and increment on one ZSet instance never
\* change the contents of another, independently constructed instance
\* (two instances constructed without initial contents included) and
\* never change the mapping object the caller passed as initial contents.
C24_Ownership ==
  /\ \A i \in Instances :
       ref[i].obj = Passed(i) => heap[Passed(i)] = ref[i].initial
  /\ last.op \in {"instance_add", "instance_remove", "instance_discard",
                  "instance_increment"} =>
       \A j \in Instances \ {last.i} : heap[ref[j].obj] = last.pre[ref[j].obj]


\* C25: a FIFO Queue constructed on an empty key with initial contents
\* x1..xn returns x1..xn in that order from n successive get_nowait
\* calls, and every item put after construction is returned only after
\* all initial items have been returned.
C25_SeededOrder ==
  \A k \in 1..Len(gotlog) :
    /\ k <= Len(initial) => gotlog[k] = RVal(initial[k])
    /\ gotlog[k].v \in Items => k > Len(initial)

\* the elements of L that are in S, in the order of L
RECURSIVE Only(_, _)
Only(L, S) ==
  IF L = <<>> THEN <<>>
  ELSE IF Head(L) \in S THEN <<Head(L)>> \o Only(Tail(L), S)
  ELSE Only(Tail(L), S)

\* C21: extend(xs) is one tail push per element in iteration order
\* (extendleft one head push per element). Whatever the other caller
\* does on the key, the elements a caller has pushed so far are in the
\* list exactly once and in its push order (head pushes: newest first);
\* when nothing else was written meanwhile, extend(xs) on list L gives L
\* followed by xs, and a reader sees L followed by a prefix of xs.
C21_Extend ==
  \A c \in Callers :
    call[c] # NoCall =>
      LET xs == call[c].xs
          pushed == SubSeq(xs, 1, call[c].n)
      IN /\ (pc[c] = "idle") = (call[c].n = Len(xs))
         /\ Only(lst, Own(c)) = IF call[c].left THEN Reverse(pushed) ELSE pushed
         /\ (~call[c].left /\ Len(lst) = Len(call[c].L0) + call[c].n) =>
              lst = call[c].L0 \o pushed
         /\ (last.op \in {"append", "appendleft"} /\ last.c = c) =>
              /\ Len(last.cmds) = 1
              /\ Len(lst) = Len(last.pre) + 1

C21_Witness ==
  /\ last.op = "getslice" /\ last.c = 1
  /\ call[1] # NoCall /\ call[2] # NoCall
  /\ call[1].xs = <<"a", "b">> /\ ~call[1].left
  /\ call[2].xs = <<"x", "y">> /\ ~call[2].left
  /\ pc[2] = "extend"
  /\ last.out = RList(<<"a", "x", "b">>)


\* C23: Dict.pop reads and then deletes, in two store commands. Whatever
\* the other callers did to the key in between, also when they removed
\* it, the pop that found a value returns the value it read without
\* raising, and the key is absent once it returns.
C23_PopNotAtomic ==
  [][\A c \in Callers :
       (pc[c] = "pop" /\ pc'[c] = "idle") =>
         /\ last'.op = "dpop" /\ last'.c = c
         /\ last'.out = call[c].val
         /\ last'.out.t = "val"
         /\ hash'[call[c].key] = Missing]_vars

C23_Witness ==
  /\ prev.op = "dpop" /\ last.op = "dpop"
  /\ prev.c # last.c
  /\ prev.v.key = "k1" /\ last.v.key = "k1"
  /\ prev.pre["k1"] = "v" /\ last.pre["k1"] = Missing
  /\ prev.out = RVal("v") /\ last.out = RVal("v")
  /\ hash["k1"] = Missing
  /\ ~hook


\* C22: put's full() check and its push are two store commands. With
\* maxsize = m > 0 the length never exceeds m by more than the number of
\* other callers, and a push made while every pending put's check still
\* matches the stored length (as it always does with a single caller)
\* keeps the length <= m; with two producers on m - 1 elements both
\* checks pass and the length reaches m + 1.
C22_MaxSizeAdvisory ==
  /\ [](maxsize # 0 => Len(lst) <= maxsize + Cardinality(Callers) - 1)
  /\ [][(/\ maxsize # 0
         /\ Len(lst) <= maxsize
         /\ \A c \in Callers : pc[c] = "put" => call[c].seen = Len(lst))
        => Len(lst') <= maxsize]_vars

C22_Witness ==
  /\ maxsize = 1
  /\ last.op = "put" /\ last.out = RNone
  /\ last.j = maxsize - 1
  /\ Len(last.pre) = maxsize
  /\ Len(lst) = maxsize + 1

\* how often x was returned by a get, and how often it is in list L
TimesReturned(x) == Cardinality({k \in 1..Len(gotlog) : gotlog[k] = RVal(x)})
TimesIn(L, x) == Cardinality({k \in 1..Len(L) : L[k] = x})

\* C26: for every interleaving of producers calling put and consumers
\* calling get (blocking, with or without timeout) or get_nowait on one
\* queue key, each element put is returned to at most one consumer, no
\* consumer returns an element that was never put, and at every moment
\* the number of elements put is the number returned plus the number
\* still stored.
C26_ExactlyOnce ==
  /\ Len(putlog) = Len(gotlog) + Len(lst)
  /\ \A x \in Items : TimesIn(putlog, x) = TimesReturned(x) + TimesIn(lst, x)
  /\ \A k \in 1..Len(gotlog) :
       \E x \in Items : gotlog[k] = RVal(x) /\ TimesIn(putlog, x) > 0

====
